---- MODULE Spec2Model ----
(***************************************************************************)
(* A model of the markdown (remark) printer of prettier and of the         *)
(* command line driver that runs it over files.                            *)
(*                                                                         *)
(*   Spec      genericPrint applied to one AST (printer-remark.js)         *)
(*   SpecBlock printBlock's loop over the children of a block container,   *)
(*             with the print callback an input                            *)
(*   SpecCli   the multi-file run of the command line driver               *)
(*                                                                         *)
(* Text is a sequence of one-character strings, so that splitting on       *)
(* whitespace, trimming and counting runs of a character are computed.     *)
(***************************************************************************)
EXTENDS Naturals, Sequences, FiniteSets, TLC

VARIABLES
  ast,        \* the AST handed to genericPrint (the node the path points at)
  options,    \* the options argument of genericPrint
  pc,         \* "ready" before the call, "done" after it
  result,     \* what the call produced: Doc or error, the AST afterwards, logs
  bChildren,  \* printBlock: the children of the container
  bThrows,    \* printBlock: the index of the child whose print throws (0: none)
  bIdx,       \* printBlock: how many children path.each has visited
  bPrev,      \* printBlock: the local prev
  bOut,       \* printBlock: the local array children
  bPc,        \* printBlock: "loop", "returned" or "thrown"
  bDoc,       \* printBlock: the Doc returned
  cli         \* the command line run (a record, see CliInit)

vars == <<ast, options, pc, result, bChildren, bThrows, bIdx, bPrev, bOut, bPc, bDoc, cli>>

-----------------------------------------------------------------------------
(* Bounds of the model. *)

MaxValueLen == 3
MaxTextLen == 2
MaxQuotedChildren == 2
MaxParaChildren == 2
MaxBlockChildren == 2
MaxFiles == 2

-----------------------------------------------------------------------------
(* Text *)

Max(a, b) == IF a >= b THEN a ELSE b

\* The strings over an alphabet, up to a length.
StringsUpTo(chars, n) == UNION {[1..k -> chars] : k \in 0..n}

SeqsUpTo(S, n) == UNION {[1..k -> S] : k \in 0..n}

SeqsFromTo(S, m, n) == UNION {[1..k -> S] : k \in m..n}

\* The backtick character, which a TLA+ string cannot hold, is written as an
\* apostrophe.
Backtick == "'"

IsWhitespace(c) == c \in {" ", "\n"}

\* String.prototype.repeat
Repeat(c, n) == [i \in 1..n |-> c]

RECURSIVE Flatten(_)
Flatten(ss) == IF ss = <<>> THEN <<>> ELSE Head(ss) \o Flatten(Tail(ss))

\* text.replace(/^\s+/, "")
RECURSIVE TrimStart(_)
TrimStart(s) ==
  IF s # <<>> /\ IsWhitespace(Head(s)) THEN TrimStart(Tail(s)) ELSE s

\* text.split(/\s+/g): every maximal run of whitespace is one separator, and
\* a separator at either end leaves an empty word there.
RECURSIVE SplitFrom(_, _, _)
SplitFrom(s, cur, acc) ==
  IF s = <<>> THEN Append(acc, cur)
  ELSE IF IsWhitespace(Head(s))
       THEN SplitFrom(TrimStart(s), <<>>, Append(acc, cur))
       ELSE SplitFrom(Tail(s), Append(cur, Head(s)), acc)

SplitWhitespace(s) == SplitFrom(s, <<>>, <<>>)

\* String.prototype.toLowerCase, on the letters of the model's alphabets.
ToLowerCase(s) == [i \in 1..Len(s) |-> IF s[i] = "A" THEN "a" ELSE s[i]]

\* longest-streak: the length of the longest run of marker in value.
RECURSIVE StreakFrom(_, _, _, _)
StreakFrom(value, marker, run, best) ==
  IF value = <<>> THEN Max(run, best)
  ELSE IF Head(value) = marker
       THEN StreakFrom(Tail(value), marker, run + 1, best)
       ELSE StreakFrom(Tail(value), marker, 0, Max(run, best))

streak(value, marker) == StreakFrom(value, marker, 0, 0)

\* FENCE = /([BACKTICK~])\1{2}/ tested on value.
FenceTest(value) ==
  \E i \in 1..Len(value) :
    /\ i + 2 <= Len(value)
    /\ value[i] \in {Backtick, "~"}
    /\ value[i + 1] = value[i]
    /\ value[i + 2] = value[i]

\* remarkCompiler.encode: special characters become entities ("&" here).
RECURSIVE encode(_)
encode(s) ==
  IF s = <<>> THEN <<>>
  ELSE (IF Head(s) = "&" THEN <<"&", "a", "m", "p", ";">> ELSE <<Head(s)>>)
       \o encode(Tail(s))

\* remarkCompiler.escape: markdown syntax characters get a backslash ("*" here).
RECURSIVE escape(_)
escape(s) ==
  IF s = <<>> THEN <<>>
  ELSE (IF Head(s) = "*" THEN <<"\\", "*">> ELSE <<Head(s)>>) \o escape(Tail(s))

\* remark-stringify's enclose-uri: angle brackets when the url is empty or
\* holds whitespace.
uri(url) ==
  IF url = <<>> \/ \E i \in 1..Len(url) : IsWhitespace(url[i])
  THEN <<"<">> \o url \o <<">">>
  ELSE url

\* remark-stringify's enclose-title: the title in double quotes.
title(t) == <<"\"">> \o t \o <<"\"">>

-----------------------------------------------------------------------------
(* Docs (doc-builders) *)

NoDoc == [type |-> "none"]

\* A string used as a Doc.
Str(s) == [type |-> "string", value |-> s]

line == [type |-> "line", kind |-> "normal"]

softline == [type |-> "line", kind |-> "soft"]

hardline == [type |-> "line", kind |-> "hard"]

concat(parts) == [type |-> "concat", parts |-> parts]

group(contents) == [type |-> "group", contents |-> contents]

indent(contents) == [type |-> "indent", contents |-> contents]

markerBlock(marker, contents) ==
  [type |-> "markerBlock", marker |-> marker, contents |-> contents]

ifBreak(breakContents, flatContents) ==
  [type |-> "ifBreak", breakContents |-> breakContents, flatContents |-> flatContents]

\* fill accepts only a sequence of odd length (content, separator, content, ...).
FillAccepts(parts) == Len(parts) % 2 = 1

fill(parts) == [type |-> "fill", parts |-> parts]

hardlinex2 == concat(<<hardline, hardline>>)

hardlinex3 == concat(<<hardline, hardline, hardline>>)

\* remarkOptions with fences off and the pedantic mode on.
remarkOptionsIndented ==
  [commonmark |-> FALSE, emphasis |-> "*", strong |-> "*", fence |-> Backtick,
   fences |-> FALSE, setext |-> FALSE, closeAtx |-> FALSE,
   pedantic |-> TRUE, listItemIndent |-> "1"]

remarkOptions ==
  [commonmark |-> FALSE, emphasis |-> "*", strong |-> "*", fence |-> Backtick,
   fences |-> TRUE, setext |-> FALSE, closeAtx |-> FALSE,
   \* never set by the module: undefined
   pedantic |-> FALSE, listItemIndent |-> "undefined"]

-----------------------------------------------------------------------------
(* The AST.  Every node is a record of the same shape; a field a node type  *)
(* does not have holds the empty value (undefined, which is falsy).         *)

NoNode ==
  [type |-> "null", value |-> <<>>, lang |-> <<>>, ordered |-> FALSE,
   identifier |-> <<>>, referenceType |-> "", alt |-> <<>>, url |-> <<>>,
   title |-> <<>>, children |-> <<>>]

Node(type) == [NoNode EXCEPT !.type = type]

Parent(type, children) == [NoNode EXCEPT !.type = type, !.children = children]

Text(value) == [NoNode EXCEPT !.type = "text", !.value = value]

Code(lang, value) == [NoNode EXCEPT !.type = "code", !.lang = lang, !.value = value]

List(ordered) == [NoNode EXCEPT !.type = "list", !.ordered = ordered]

ImageReference(alt, identifier, referenceType) ==
  [NoNode EXCEPT !.type = "imageReference", !.alt = alt,
                 !.identifier = identifier, !.referenceType = referenceType]

Definition(identifier, url, t) ==
  [NoNode EXCEPT !.type = "definition", !.identifier = identifier, !.url = url,
                 !.title = t]

\* The node types genericPrint's switch has a case for.
PrintedTypes ==
  {"root", "blockquote", "break", "code", "definition", "delete",
   "footnoteDefinition", "footnoteReference", "footnote", "heading", "html",
   "imageReference", "text", "paragraph", "emphasis", "strong"}

-----------------------------------------------------------------------------
(* The outcome of a call: a Doc or an error, the node as the call left it,  *)
(* every sequence handed to fill and every node type dispatched on, in      *)
(* order.                                                                   *)

NoError == [kind |-> "none", type |-> ""]

\* new Error("unknown remark type: " + n.type)
UnknownType(type) == [kind |-> "unknown remark type", type |-> type]

\* new Error("Cannot indent code properly. See http://git.io/vgFvT")
CannotIndent == [kind |-> "Cannot indent code properly", type |-> ""]

\* fill's refusal of a sequence of even length
MalformedFill == [kind |-> "fill: even length", type |-> ""]

EmptyLog == [fills |-> <<>>, visited |-> <<>>]

Returned(doc, node, log) ==
  [ok |-> TRUE, doc |-> doc, node |-> node, fills |-> log.fills,
   visited |-> log.visited, err |-> NoError]

Thrown(err, node, log) ==
  [ok |-> FALSE, doc |-> NoDoc, node |-> node, fills |-> log.fills,
   visited |-> log.visited, err |-> err]

LogOf(r) == [fills |-> r.fills, visited |-> r.visited]

\* A call of fill by the case named: the sequence is logged, and refused when
\* fill does not accept it.
CallFill(by, parts, log) ==
  LET log2 == [log EXCEPT !.fills = Append(@, [by |-> by, parts |-> parts])]
  IN  IF FillAccepts(parts)
      THEN Returned(fill(parts), NoNode, log2)
      ELSE Thrown(MalformedFill, NoNode, log2)

-----------------------------------------------------------------------------
(* Helpers of printer-remark.js *)

RECURSIVE intersperse(_, _)
intersperse(sep, itemsIn) ==
  IF Len(itemsIn) <= 1 THEN itemsIn
  ELSE <<Head(itemsIn), sep>> \o intersperse(sep, Tail(itemsIn))

\* One word of textToWords: escaped, then encoded.
Word(word, shouldEncode, shouldEscape) ==
  LET w1 == IF shouldEscape THEN escape(word) ELSE word
      w2 == IF shouldEncode THEN encode(w1) ELSE w1
  IN  Str(w2)

\* textToWords: "" for an empty text (no elements), else the words of the
\* text with a line between each two.
textToWords(text, shouldEncode, shouldEscape) ==
  IF text = <<>> THEN <<>>
  ELSE LET words == SplitWhitespace(text)
       IN  intersperse(line,
             [i \in 1..Len(words) |-> Word(words[i], shouldEncode, shouldEscape)])

printWrappingText(by, text, shouldEncode, shouldEscape, log) ==
  CallFill(by, textToWords(text, shouldEncode, shouldEscape), log)

RECURSIVE flattenOnce(_)
flattenOnce(docs) ==
  IF docs = <<>> THEN <<>>
  ELSE (IF Head(docs).type = "concat" THEN Head(docs).parts ELSE <<Head(docs)>>)
       \o flattenOnce(Tail(docs))

\* printLabel with brackets for a shortcut reference too.
printLabelBracketsShortcut(n, log) ==
  LET type == n.referenceType
      value == IF type = "full"
               THEN printWrappingText("label", n.identifier, FALSE, FALSE, log)
               ELSE Returned(Str(<<>>), NoNode, log)
  IN  IF ~value.ok THEN value
      ELSE Returned(concat(<<Str(<<"[">>), value.doc, Str(<<"]">>)>>), NoNode,
                    LogOf(value))

\* printLabel: nothing for a shortcut reference, the identifier in brackets
\* for a full one, empty brackets otherwise.
printLabel(n, log) ==
  LET type == n.referenceType
      value == IF type = "full"
               THEN printWrappingText("label", n.identifier, FALSE, FALSE, log)
               ELSE Returned(Str(<<>>), NoNode, log)
  IN  IF ~value.ok THEN value
      ELSE IF type = "shortcut" THEN value
      ELSE Returned(concat(<<Str(<<"[">>), value.doc, Str(<<"]">>)>>), NoNode,
                    LogOf(value))

\* BlockSeparator with the comparison of the ordered flags left out.
BlockSeparatorAnyLists(prev, child) ==
  IF child.type = prev.type /\ prev.type = "list"
  THEN hardlinex3
  ELSE IF prev.type = "list" /\ child.type = "code" /\ child.lang = <<>>
       THEN hardlinex3
       ELSE hardlinex2

\* The separator printBlock pushes between prev and child.
BlockSeparator(prev, child) ==
  IF child.type = prev.type /\ prev.type = "list"
  THEN (IF prev.ordered = child.ordered THEN hardlinex3 ELSE hardlinex2)
  ELSE IF prev.type = "list" /\ child.type = "code" /\ child.lang = <<>>
       THEN hardlinex3
       ELSE hardlinex2

\* remarkCompiler.visitors[n.type] of footnoteReference, heading and html:
\* the node as text, nothing of it printed through genericPrint.
RemarkVisit(n) ==
  CASE n.type = "footnoteReference" -> <<"[", "^">> \o n.identifier \o <<"]">>
    [] n.type = "html" -> n.value
    [] OTHER -> <<"#", " ">> \o n.value

-----------------------------------------------------------------------------
(* genericPrint.  The print callback it is handed prints a child by calling *)
(* genericPrint on it, with the child's parent on the path.                 *)

RECURSIVE genericPrint(_, _, _)
RECURSIVE MapFrom(_, _, _)
RECURSIVE BlockFrom(_, _, _, _)

NoDocs(n, log) ==
  [ok |-> TRUE, docs |-> <<>>, node |-> n, fills |-> log.fills,
   visited |-> log.visited, err |-> NoError]

\* path.map(print, "children") from child i on: the Docs of the children in
\* order; a child's throw ends the call.  acc.node holds the node with the
\* children as their calls left them.
MapFrom(n, i, acc) ==
  IF i > Len(n.children) THEN acc
  ELSE LET r == genericPrint(acc.node.children[i], n.type, LogOf(acc))
           node2 == [acc.node EXCEPT !.children[i] = r.node]
       IN  IF r.ok
           THEN MapFrom(n, i + 1,
                        [acc EXCEPT !.docs = Append(@, r.doc), !.node = node2,
                                    !.fills = r.fills, !.visited = r.visited])
           ELSE [acc EXCEPT !.ok = FALSE, !.node = node2, !.fills = r.fills,
                            !.visited = r.visited, !.err = r.err]

MapChildren(n, log) == MapFrom(n, 1, NoDocs(n, log))

\* printBlock's path.each from child i on: acc.docs is the local array
\* children, prev the child visited before (NoNode before the first).
BlockFrom(n, i, prev, acc) ==
  IF i > Len(n.children) THEN acc
  ELSE LET child == acc.node.children[i]
           pushed == IF prev # NoNode
                     THEN Append(acc.docs, BlockSeparator(prev, child))
                     ELSE acc.docs
           r == genericPrint(child, n.type, LogOf(acc))
           node2 == [acc.node EXCEPT !.children[i] = r.node]
       IN  IF r.ok
           THEN BlockFrom(n, i + 1, r.node,
                          [acc EXCEPT !.docs = Append(pushed, r.doc),
                                      !.node = node2, !.fills = r.fills,
                                      !.visited = r.visited])
           ELSE [acc EXCEPT !.ok = FALSE, !.docs = pushed, !.node = node2,
                            !.fills = r.fills, !.visited = r.visited,
                            !.err = r.err]

\* printBlock: concat of the array, or the child's throw.
printBlock(n, log) ==
  LET r == BlockFrom(n, 1, NoNode, NoDocs(n, log))
  IN  IF r.ok THEN Returned(concat(r.docs), r.node, LogOf(r))
      ELSE Thrown(r.err, r.node, LogOf(r))

printBlockWithLeftMarkers(n, marker, log) ==
  LET r == printBlock(n, log)
  IN  IF r.ok THEN Returned(markerBlock(marker, r.doc), r.node, LogOf(r)) ELSE r

printQuoted(n, leftQuote, rightQuote, log) ==
  LET r == MapChildren(n, log)
  IN  IF r.ok
      THEN Returned(concat(<<Str(leftQuote)>> \o r.docs \o <<Str(rightQuote)>>),
                    r.node, LogOf(r))
      ELSE Thrown(r.err, r.node, LogOf(r))

\* The default case skipping the node instead of throwing.
UnknownNodeSkipped(n, log) == Returned(Str(<<>>), n, log)

\* default: throw new Error("unknown remark type: " + n.type)
UnknownNode(n, log) == Thrown(UnknownType(n.type), n, log)

\* FenceLength without the one more.
FenceLengthOfStreak(value, marker) == Max(streak(value, marker), 3)

\* The number of marker characters of a fence: one more than the longest run
\* in the value, and at least three.
FenceLength(value, marker) == Max(streak(value, marker) + 1, 3)

\* case "code"
PrintCode(n, parentType, log) ==
  LET value == n.value
      marker == remarkOptions.fence
      lang == encode(n.lang)
      value2 == IF FenceTest(value) THEN indent(Str(value)) ELSE Str(value)
      fence2 == Repeat(marker, FenceLength(value, marker))
  IN  IF lang = <<>> /\ ~remarkOptions.fences /\ value # <<>>
      THEN IF /\ parentType = "listItem"
              /\ remarkOptions.listItemIndent # "tab"
              /\ remarkOptions.pedantic
           THEN Thrown(CannotIndent, n, log)
           ELSE Returned(indent(Str(value)), n, log)
      ELSE Returned(concat(<<Str(fence2), Str(lang), hardline, value2, hardline,
                             Str(fence2)>>), n, log)

\* case "definition"
PrintDefinition(n, log) ==
  LET id == ToLowerCase(n.identifier)
      idAndUrlParts == textToWords(<<"[">> \o id \o <<"]", ":">>, FALSE, FALSE)
                         \o <<line, Str(uri(n.url))>>
      f1 == CallFill("definition", idAndUrlParts, log)
      f2 == CallFill("definition", textToWords(title(n.title), FALSE, FALSE),
                     LogOf(f1))
  IN  IF ~f1.ok THEN Thrown(f1.err, n, LogOf(f1))
      ELSE IF n.title = <<>>
      THEN Returned(group(indent(concat(<<f1.doc>>))), n, LogOf(f1))
      ELSE IF ~f2.ok THEN Thrown(f2.err, n, LogOf(f2))
      ELSE Returned(group(indent(concat(<<f1.doc, line, f2.doc>>))), n, LogOf(f2))

\* case "footnoteDefinition"
PrintFootnoteDefinition(n, log) ==
  LET id == ToLowerCase(n.identifier)
      idTagParts == textToWords(<<"[", "^">> \o id \o <<"]", ":">>, FALSE, FALSE)
      content == printBlock(n, log)
      f1 == CallFill("footnoteDefinition", idTagParts, LogOf(content))
      f2 == CallFill("footnoteDefinition", <<line, content.doc>>, LogOf(f1))
  IN  IF ~content.ok THEN content
      ELSE IF ~f1.ok THEN Thrown(f1.err, content.node, LogOf(f1))
      ELSE IF ~f2.ok THEN Thrown(f2.err, content.node, LogOf(f2))
      ELSE Returned(group(concat(<<f1.doc, ifBreak(softline, Str(<<>>)),
                                   indent(f2.doc)>>)),
                    content.node, LogOf(f2))

\* case "footnote"
PrintFootnote(n, log) ==
  LET r == MapChildren(n, log)
      f == CallFill("footnote", flattenOnce(flattenOnce(r.docs)), LogOf(r))
  IN  IF ~r.ok THEN Thrown(r.err, r.node, LogOf(r))
      ELSE IF ~f.ok THEN Thrown(f.err, r.node, LogOf(f))
      ELSE Returned(concat(<<Str(<<"[", "^">>), f.doc, Str(<<"]">>)>>), r.node,
                    LogOf(f))

\* case "imageReference"
PrintImageReference(n, log) ==
  LET alt == printWrappingText("imageReference", n.alt, TRUE, FALSE, log)
      label == printLabel(n, LogOf(alt))
  IN  IF ~alt.ok THEN Thrown(alt.err, n, LogOf(alt))
      ELSE IF ~label.ok THEN Thrown(label.err, n, LogOf(label))
      ELSE Returned(concat(<<Str(<<"!", "[">>), alt.doc, Str(<<"]">>), label.doc>>),
                    n, LogOf(label))

\* The paragraph as its case leaves it before printing the children: the
\* value of a first child of type text loses its leading whitespace.
TrimFirstText(n) ==
  IF n.children # <<>> /\ n.children[1].type = "text"
  THEN [n EXCEPT !.children[1].value = TrimStart(@)]
  ELSE n

\* case "paragraph"
PrintParagraph(n, log) ==
  LET n1 == TrimFirstText(n)
      r == MapChildren(n1, log)
      childDocs == intersperse(softline, r.docs)
      f == CallFill("paragraph", flattenOnce(flattenOnce(childDocs)), LogOf(r))
  IN  IF ~r.ok THEN Thrown(r.err, r.node, LogOf(r))
      ELSE IF ~f.ok THEN Thrown(f.err, r.node, LogOf(f))
      ELSE Returned(f.doc, r.node, LogOf(f))

genericPrint(n, parentType, log0) ==
  LET log == [log0 EXCEPT !.visited = Append(@, n.type)]
  IN  IF n = NoNode THEN Returned(Str(<<>>), n, log0)
      ELSE CASE n.type = "root" ->
                  LET r == printBlock(n, log)
                  IN  IF r.ok
                      THEN Returned(concat(<<r.doc, hardline>>), r.node, LogOf(r))
                      ELSE r
             [] n.type = "blockquote" ->
                  printBlockWithLeftMarkers(n, <<">", " ">>, log)
             [] n.type = "break" ->
                  Returned(IF remarkOptions.commonmark
                           THEN concat(<<Str(<<"\\">>)>>)
                           ELSE hardline, n, log)
             [] n.type = "code" -> PrintCode(n, parentType, log)
             [] n.type = "definition" -> PrintDefinition(n, log)
             [] n.type = "delete" -> printQuoted(n, <<"~", "~">>, <<"~", "~">>, log)
             [] n.type = "footnoteDefinition" -> PrintFootnoteDefinition(n, log)
             [] n.type \in {"footnoteReference", "heading", "html"} ->
                  Returned(Str(RemarkVisit(n)), n, log)
             [] n.type = "footnote" -> PrintFootnote(n, log)
             [] n.type = "imageReference" -> PrintImageReference(n, log)
             [] n.type = "text" ->
                  Returned(concat(textToWords(n.value, TRUE, TRUE)), n, log)
             [] n.type = "paragraph" -> PrintParagraph(n, log)
             [] n.type = "emphasis" ->
                  printQuoted(n, <<remarkOptions.emphasis>>,
                              <<remarkOptions.emphasis>>, log)
             [] n.type = "strong" ->
                  printQuoted(n, Repeat(remarkOptions.strong, 2),
                              Repeat(remarkOptions.strong, 2), log)
             [] OTHER -> UnknownNode(n, log)

-----------------------------------------------------------------------------
(* The ASTs the model hands to genericPrint. *)

TextValues == StringsUpTo({"a", " "}, MaxTextLen) \ {<<>>}

Texts == {Text(v) : v \in TextValues \cup {<<"*">>, <<"a", " ", "a">>}}

QuotedChildren == {Text(<<"a">>), Parent("strong", <<Text(<<"a">>)>>)}

Quoted ==
  {Parent(t, k) : t \in {"emphasis", "strong", "delete"},
                  k \in SeqsFromTo(QuotedChildren, 1, MaxQuotedChildren)}

AltValues == StringsUpTo({"a", " "}, MaxTextLen) \cup {<<"&">>}

ImageReferences ==
  {ImageReference(alt, id, rt) :
     alt \in AltValues, id \in {<<"a">>, <<"a", " ", "b">>},
     rt \in {"shortcut", "collapsed", "full"}}

Inlines ==
  {Text(<<"a">>), Text(<<" ", "a">>), Node("break"), Node("inlineCode"),
   ImageReference(<<"a">>, <<"a">>, "full")} \cup Quoted

Paragraphs ==
  {Parent("paragraph", k) : k \in SeqsUpTo(Inlines, MaxParaChildren)}
    \cup {Parent("paragraph", <<t>>) : t \in Texts}
    \cup {Parent("paragraph", <<t, Text(<<"a">>)>>) : t \in Texts}

Footnotes ==
  {Parent("footnote", k) :
     k \in SeqsUpTo({Text(<<"a">>), Text(<<"a", " ", "a">>),
                     Parent("emphasis", <<Text(<<"a">>)>>)}, MaxQuotedChildren)}

Codes ==
  {Code(lang, value) : lang \in {<<>>, <<"j", "s">>},
                       value \in StringsUpTo({"a", Backtick, "~"}, MaxValueLen)}

Definitions ==
  {Definition(id, url, t) :
     id \in {<<"a">>, <<"A", " ", "b">>},
     url \in {<<>>, <<"u">>, <<"u", " ", "v">>},
     t \in {<<>>, <<"t">>, <<"t", " ", "s">>}}

Blocks ==
  {Parent("paragraph", <<Text(<<"a">>)>>), Code(<<>>, <<"a">>),
   Code(<<"j", "s">>, <<"a">>), List(TRUE), List(FALSE),
   Parent("heading", <<Node("link")>>), Node("thematicBreak"),
   Definition(<<"a">>, <<"u">>, <<>>),
   Parent("blockquote", <<Parent("paragraph", <<Text(<<" ", "a">>)>>)>>),
   Parent("listItem", <<Code(<<>>, <<"a">>)>>)}

Containers ==
  {Parent(t, k) : t \in {"root", "blockquote", "footnoteDefinition"},
                  k \in SeqsUpTo(Blocks, MaxBlockChildren)}

Inputs ==
  Containers \cup Paragraphs \cup Footnotes \cup ImageReferences \cup Codes
    \cup Definitions
    \cup {Node("html"), Node("footnoteReference"), Node("table"), NoNode}

\* What a caller may ask for; genericPrint never reads its options argument.
OptionsSet ==
  {[fences |-> TRUE, pedantic |-> FALSE, listItemIndent |-> "tab"],
   [fences |-> FALSE, pedantic |-> TRUE, listItemIndent |-> "1"]}

-----------------------------------------------------------------------------
(* Spec: one call of genericPrint on an AST. *)

\* What the caller gets from a call: the Doc or the error, and the logs.
Outcome(r) ==
  [ok |-> r.ok, doc |-> r.doc, err |-> r.err, fills |-> r.fills,
   visited |-> r.visited]

NoResult == Outcome(Thrown(NoError, NoNode, EmptyLog))

BlockIdle ==
  /\ bChildren = <<>>
  /\ bThrows = 0
  /\ bIdx = 0
  /\ bPrev = NoNode
  /\ bOut = <<>>
  /\ bPc = "idle"
  /\ bDoc = NoDoc

PrintIdle ==
  /\ ast = NoNode
  /\ options = [fences |-> TRUE, pedantic |-> FALSE, listItemIndent |-> "tab"]
  /\ pc = "idle"
  /\ result = NoResult

CliIdle == cli = [pc |-> "idle"]

blockVars == <<bChildren, bThrows, bIdx, bPrev, bOut, bPc, bDoc>>

printVars == <<ast, options, pc, result>>

Init ==
  /\ ast \in Inputs
  /\ options \in OptionsSet
  /\ pc = "ready"
  /\ result = NoResult
  /\ BlockIdle
  /\ CliIdle

\* genericPrint(path, options, print) on the node the path points at, which
\* has no parent on the path.  The AST is the caller's object: what the call
\* assigns to its nodes stays assigned.
GenericPrint ==
  /\ pc = "ready"
  /\ LET r == genericPrint(ast, "none", EmptyLog)
     IN  /\ result' = Outcome(r)
         /\ ast' = r.node
  /\ pc' = "done"
  /\ UNCHANGED <<options, blockVars, cli>>

Next == GenericPrint

Spec == Init /\ [][Next]_vars

-----------------------------------------------------------------------------
(* SpecBlock: printBlock(path, print) on a container, one child of          *)
(* path.each at a step.  What print does with a child is an input: it       *)
(* returns a Doc, or it throws.                                             *)

\* The Doc the print callback returns for child i.
PrintedChild(i) == [type |-> "printed", child |-> i]

InitBlock ==
  /\ bChildren \in SeqsUpTo(Blocks, MaxBlockChildren + 1)
  /\ bThrows \in 0..Len(bChildren)
  /\ bIdx = 0
  /\ bPrev = NoNode
  /\ bOut = <<>>
  /\ bPc = "loop"
  /\ bDoc = NoDoc
  /\ PrintIdle
  /\ CliIdle

\* One call of path.each's callback.
BlockEach ==
  /\ bPc = "loop"
  /\ bIdx < Len(bChildren)
  /\ LET child == bChildren[bIdx + 1]
         pushed == IF bPrev # NoNode
                   THEN Append(bOut, BlockSeparator(bPrev, child))
                   ELSE bOut
     IN  IF bThrows = bIdx + 1
         THEN /\ bOut' = pushed
              /\ bPc' = "thrown"
              /\ UNCHANGED <<bIdx, bPrev>>
         ELSE /\ bOut' = Append(pushed, PrintedChild(bIdx + 1))
              /\ bPrev' = child
              /\ bIdx' = bIdx + 1
              /\ bPc' = "loop"
  /\ UNCHANGED <<bChildren, bThrows, bDoc, printVars, cli>>

\* return concat(children)
BlockReturn ==
  /\ bPc = "loop"
  /\ bIdx = Len(bChildren)
  /\ bDoc' = concat(bOut)
  /\ bPc' = "returned"
  /\ UNCHANGED <<bChildren, bThrows, bIdx, bPrev, bOut, printVars, cli>>

NextBlock == BlockEach \/ BlockReturn

SpecBlock == InitBlock /\ [][NextBlock]_vars

-----------------------------------------------------------------------------
(* SpecCli: the command line driver run over files (no --stdin, no          *)
(* --find-config-path, no --debug-print-doc).                               *)

\* The contents a file may have.
FileTexts == {"x", "y"}

\* How prettier.format may fail: a parse error (it has a loc), a validation
\* error of the options, anything else.
FormatErrors == {"parse", "validation", "other"}

\* What cleanAST(parse(text)) may be.
CleanAsts == {"p", "q"}

\* The filtered list mapSeries runs over: the matched paths, in order,
\* without the ignored ones.
FilteredOf(c) == SelectSeq([i \in 1..c.n |-> i], LAMBDA i : i \notin c.ignored)

\* prettier.check: whether the text is its own formatted form; false when it
\* cannot be formatted.
Check(c, input) == c.fmt[input] = input

\* Format with the comparison of the cleaned ASTs left out.
FormatWithoutAstCheck(c, input) ==
  LET pp == c.fmt[input]
      pppp == c.fmt[pp]
  IN  IF c.debugCheck
      THEN IF pp \in FormatErrors THEN [threw |-> TRUE, kind |-> pp, formatted |-> ""]
           ELSE IF pppp \in FormatErrors
           THEN [threw |-> TRUE, kind |-> pppp, formatted |-> ""]
           ELSE IF pp # pppp
           THEN [threw |-> TRUE, kind |-> "not idempotent", formatted |-> ""]
           ELSE [threw |-> FALSE, kind |-> "", formatted |-> "(filepath)"]
      ELSE IF pp \in FormatErrors THEN [threw |-> TRUE, kind |-> pp, formatted |-> ""]
           ELSE [threw |-> FALSE, kind |-> "", formatted |-> pp]

\* format(input, opt): what it returns, or the kind of what it throws.
Format(c, input) ==
  LET pp == c.fmt[input]
      pppp == c.fmt[pp]
  IN  IF c.debugCheck
      THEN IF pp \in FormatErrors THEN [threw |-> TRUE, kind |-> pp, formatted |-> ""]
           ELSE IF pppp \in FormatErrors
           THEN [threw |-> TRUE, kind |-> pppp, formatted |-> ""]
           ELSE IF pp # pppp
           THEN [threw |-> TRUE, kind |-> "not idempotent", formatted |-> ""]
           ELSE IF c.astOf[input] # c.astOf[pp]
           THEN [threw |-> TRUE, kind |-> "ast changed", formatted |-> ""]
           ELSE [threw |-> FALSE, kind |-> "", formatted |-> "(filepath)"]
      ELSE IF pp \in FormatErrors THEN [threw |-> TRUE, kind |-> pp, formatted |-> ""]
           ELSE [threw |-> FALSE, kind |-> "", formatted |-> pp]

\* handleError ending the process for every error.
HandleErrorExitsAlways(kind) == TRUE

\* handleError: whether it ends the process (process.exit(1)) for an error of
\* this kind; otherwise it sets the exit code to 2.
HandleErrorExits(kind) == kind = "validation"

\* listDifferent clearing the exit code for a file that is formatted already.
ListDifferentCodeCleared(c, input) ==
  IF c.listDifferent /\ ~Check(c, input) THEN 1 ELSE 0

\* listDifferent's effect on the exit code.
ListDifferentCode(c, input) ==
  IF c.listDifferent /\ ~Check(c, input) THEN 1 ELSE c.exitCode

Event(file, what, input) == [file |-> file, what |-> what, input |-> input]

\* mapSeries chaining no item on another: every iteratee waits on the
\* initial promise only.
WaitsForNothing(j) == 0

\* mapSeries: the promise the iteratee of item j is chained on by
\* current.then: that of the item before it, item 0 standing for the
\* initial Promise.resolve().
WaitsFor(j) == j - 1

\* The promise of item c.idx has resolved: the iteratees chained on resolved
\* promises are invoked, each starting with getOptionsForFile, and
\* Promise.all is done when every item's promise has resolved.
Resolved(c) ==
  LET s1 == [c.stat EXCEPT ![c.idx] = "resolved"]
      s2 == [j \in DOMAIN s1 |->
               IF j > 0 /\ s1[j] = "chained" /\ s1[WaitsFor(j)] = "resolved"
               THEN "options" ELSE s1[j]]
  IN  [c EXCEPT !.stat = s2, !.idx = c.idx + 1,
                !.pc = IF \A j \in 1..Len(FilteredOf(c)) : s2[j] = "resolved"
                       THEN "done" ELSE c.pc]

\* process.exit(status)
Exited(c, status, cause) ==
  [c EXCEPT !.pc = "exited", !.exitCode = status, !.cause = cause]

\* The write branch never skipping the write.
WontChangeNever(output, input) == FALSE

\* The write branch: the file won't change, so it is not written.
WontChange(output, input) == output = input

\* The callback eachFilename is given, for file f: the whole handler, with
\* whether the read and the write succeed as inputs.
Callback(c, f, readOk, writeOk) ==
  LET input == c.disk[f]
      c1 == [c EXCEPT !.exitCode = ListDifferentCode(c, input)]
      r == Format(c, input)
      output == r.formatted
  IN  IF ~readOk
      THEN Resolved([c EXCEPT !.exitCode = 2,
                              !.events = Append(@, Event(f, "read failed", ""))])
      ELSE IF r.threw
      THEN IF HandleErrorExits(r.kind)
           THEN Exited([c1 EXCEPT !.events = Append(@, Event(f, r.kind, input))],
                       1, "validation")
           ELSE Resolved([c1 EXCEPT !.exitCode = 2,
                                    !.events = Append(@, Event(f, r.kind, input))])
      ELSE IF c.write
      THEN IF WontChange(output, input)
           THEN Resolved([c1 EXCEPT !.events = Append(@, Event(f, "unchanged", input))])
           ELSE IF writeOk
           THEN Resolved([c1 EXCEPT !.disk[f] = output,
                                    !.events = Append(@, Event(f, "written", input))])
           ELSE Resolved([c1 EXCEPT !.exitCode = 2,
                                    !.events = Append(@, Event(f, "write failed", input))])
      ELSE IF c.debugCheck
      THEN IF output # ""
           THEN Resolved([c1 EXCEPT !.events = Append(@, Event(f, "checked", input))])
           ELSE Resolved([c1 EXCEPT !.exitCode = 2,
                                    !.events = Append(@, Event(f, "no output", input))])
      ELSE Resolved([c1 EXCEPT !.events = Append(@, Event(f, "printed", input))])

InitCli ==
  /\ \E w \in BOOLEAN, l \in BOOLEAN, d \in BOOLEAN, n \in 0..MaxFiles :
       /\ ~(w /\ d)
       /\ \E fmt \in [FileTexts -> FileTexts \cup FormatErrors],
             astOf \in [FileTexts -> CleanAsts],
             disk \in [1..n -> FileTexts], ignored \in SUBSET (1..n) :
            cli = [pc |-> "start", write |-> w, listDifferent |-> l,
                   debugCheck |-> d, fmt |-> fmt, astOf |-> astOf, n |-> n,
                   ignored |-> ignored, disk |-> disk, idx |-> 0,
                   stat |-> [j \in 0..(n - Cardinality(ignored)) |-> "chained"],
                   exitCode |-> 0, cause |-> "",
                   events |-> <<>>]
  /\ PrintIdle
  /\ BlockIdle

\* eachFilename: the ignore file cannot be read (and exists): process.exit(2).
IgnoreFileUnreadable ==
  /\ cli.pc = "start"
  /\ cli' = Exited(cli, 2, "ignore file")
  /\ UNCHANGED <<printVars, blockVars>>

\* eachFilename: globby rejects; the catch sets the exit code.
GlobFails ==
  /\ cli.pc = "start"
  /\ cli' = [cli EXCEPT !.pc = "done", !.exitCode = 2, !.cause = "glob"]
  /\ UNCHANGED <<printVars, blockVars>>

\* eachFilename: no path matches.
NoMatchingFiles ==
  /\ cli.pc = "start"
  /\ cli.n = 0
  /\ cli' = [cli EXCEPT !.pc = "done", !.exitCode = 2, !.cause = "no match"]
  /\ UNCHANGED <<printVars, blockVars>>

\* eachFilename: mapSeries starts on the filtered list.
StartSeries ==
  /\ cli.pc = "start"
  /\ cli.n > 0
  /\ cli' = Resolved([cli EXCEPT !.pc = "series"])
  /\ UNCHANGED <<printVars, blockVars>>

\* getOptionsForFile resolves: the callback is called next.
OptionsResolved ==
  /\ cli.pc = "series"
  /\ \E j \in 1..Len(FilteredOf(cli)) :
       /\ cli.stat[j] = "options"
       /\ cli' = [cli EXCEPT !.stat[j] = "callback", !.idx = j]
  /\ UNCHANGED <<printVars, blockVars>>

\* getOptionsForFile: the configuration is invalid: process.exit(2).
OptionsInvalid ==
  /\ cli.pc = "series"
  /\ \E j \in 1..Len(FilteredOf(cli)) :
       /\ cli.stat[j] = "options"
       /\ cli' = Exited([cli EXCEPT !.idx = j], 2, "configuration")
  /\ UNCHANGED <<printVars, blockVars>>

\* The callback on a file whose options have been resolved.
RunCallback ==
  /\ cli.pc = "series"
  /\ \E j \in 1..Len(FilteredOf(cli)), readOk \in BOOLEAN, writeOk \in BOOLEAN :
       /\ cli.stat[j] = "callback"
       /\ cli' = Callback([cli EXCEPT !.idx = j], FilteredOf(cli)[j], readOk, writeOk)
  /\ UNCHANGED <<printVars, blockVars>>

NextCli ==
  \/ IgnoreFileUnreadable
  \/ GlobFails
  \/ NoMatchingFiles
  \/ StartSeries
  \/ OptionsResolved
  \/ OptionsInvalid
  \/ RunCallback

SpecCli == InitCli /\ [][NextCli]_vars

-----------------------------------------------------------------------------
(* The text of a Doc printed flat: a line is a space, a softline nothing,   *)
(* a hardline a line break.                                                 *)

RECURSIVE FlatText(_)
FlatText(doc) ==
  CASE doc.type = "string" -> doc.value
    [] doc.type = "line" ->
         (IF doc.kind = "normal" THEN <<" ">>
          ELSE IF doc.kind = "soft" THEN <<>> ELSE <<"\n">>)
    [] doc.type \in {"concat", "fill"} ->
         Flatten([i \in 1..Len(doc.parts) |-> FlatText(doc.parts[i])])
    [] doc.type \in {"group", "indent", "markerBlock"} -> FlatText(doc.contents)
    [] doc.type = "ifBreak" -> FlatText(doc.flatContents)
    [] OTHER -> <<>>

-----------------------------------------------------------------------------
(* Claims *)

Hardlines(k) == concat([i \in 1..k |-> hardline])

\* Whether the block-join rule asks for three hardlines between two siblings.
NeedsThree(prev, child) ==
  \/ prev.type = "list" /\ child.type = "list" /\ prev.ordered = child.ordered
  \/ prev.type = "list" /\ child.type = "code" /\ child.lang = <<>>

\* C1: the Doc printBlock returns holds the children's Docs in order, with
\* exactly three hardlines between two lists of equal ordered flag and between
\* a list and a code node without language tag, exactly two hardlines between
\* any other two adjacent children, and nothing before the first child or
\* after the last.
C1_BlockJoinRule ==
  bPc = "returned" =>
    LET n == Len(bChildren)
    IN  /\ bDoc.type = "concat"
        /\ Len(bDoc.parts) = IF n = 0 THEN 0 ELSE 2 * n - 1
        /\ \A i \in 1..n : bDoc.parts[2 * i - 1] = PrintedChild(i)
        /\ \A i \in 1..(n - 1) :
             bDoc.parts[2 * i] =
               IF NeedsThree(bChildren[i], bChildren[i + 1])
               THEN Hardlines(3) ELSE Hardlines(2)

\* C1 witness: printBlock has returned for a container where two lists of
\* equal ordered flag are followed by a code node without language tag.
C1_Witness ==
  /\ bPc = "returned"
  /\ Len(bChildren) = 3
  /\ bChildren[1].type = "list" /\ bChildren[2].type = "list"
  /\ bChildren[1].ordered = bChildren[2].ordered
  /\ bChildren[3].type = "code" /\ bChildren[3].lang = <<>>
  /\ bDoc.parts[2] = Hardlines(3) /\ bDoc.parts[4] = Hardlines(3)

\* The node types whose case prints the children through the print callback.
DispatchingTypes ==
  {"root", "blockquote", "footnoteDefinition", "paragraph", "footnote",
   "delete", "emphasis", "strong"}

\* C2: when genericPrint is called on a node whose type has no case, be it
\* the node handed in or a child printed through a container, the call fails
\* with the error naming that type and returns no Doc.
C2_UnknownTypeFails ==
  pc = "done" =>
    /\ \A i \in 1..Len(result.visited) :
         result.visited[i] \notin PrintedTypes =>
           /\ ~result.ok
           /\ result.doc = NoDoc
           /\ result.err = UnknownType(result.visited[i])
    /\ (/\ ast.type \in DispatchingTypes
        /\ \E i \in 1..Len(ast.children) : ast.children[i].type \notin PrintedTypes)
         => ~result.ok /\ result.doc = NoDoc
    /\ (ast # NoNode /\ ast.type \notin PrintedTypes) =>
         result.err = UnknownType(ast.type)
    /\ (/\ ast.type \in DispatchingTypes
        /\ ast.children # <<>>
        /\ ast.children[1].type \notin PrintedTypes)
         => result.err = UnknownType(ast.children[1].type)

\* C2 witness: a root whose second child, after a paragraph that printed, has
\* a type without a case; the call failed naming it.
C2_Witness ==
  /\ pc = "done"
  /\ ast.type = "root"
  /\ Len(ast.children) = 2
  /\ ast.children[1].type = "paragraph"
  /\ ast.children[2].type = "thematicBreak"
  /\ result.err = UnknownType("thematicBreak")
  /\ result.doc = NoDoc

\* C3: every sequence the transformer hands to fill has odd length.
C3_FillsAreOdd ==
  pc = "done" =>
    \A i \in 1..Len(result.fills) : Len(result.fills[i].parts) % 2 = 1

IsSeparator(doc) == doc.type = "line" /\ doc.kind \in {"normal", "soft"}

\* C4: the sequence a paragraph hands to fill alternates: a content Doc at
\* every even position (counted from 0), a line or softline at every odd one.
C4_ParagraphFillAlternates ==
  pc = "done" =>
    \A i \in 1..Len(result.fills) :
      result.fills[i].by = "paragraph" =>
        \A k \in 1..Len(result.fills[i].parts) :
          IsSeparator(result.fills[i].parts[k]) <=> (k % 2 = 0)

\* Whether value holds a run of k characters c.
HasRun(value, c, k) ==
  \E i \in 1..(Len(value) - k + 1) : \A j \in i..(i + k - 1) : value[j] = c

\* C5: a code node is printed as fence, language, hardline, value, hardline,
\* fence, the two fences the same run of the fence character, of length
\* max(3, L + 1) for L the longest run of that character in the value, so
\* longer than any such run.
C5_FenceLongerThanRuns ==
  (pc = "done" /\ ast.type = "code") =>
    /\ result.ok
    /\ result.doc.type = "concat"
    /\ Len(result.doc.parts) = 6
    /\ LET fence == result.doc.parts[1]
           len == Len(fence.value)
       IN  /\ fence.type = "string"
           /\ \A i \in 1..len : fence.value[i] = Backtick
           /\ result.doc.parts[6] = fence
           /\ result.doc.parts[3] = hardline /\ result.doc.parts[5] = hardline
           /\ FlatText(result.doc.parts[4]) = ast.value
           /\ len >= 3
           /\ ~HasRun(ast.value, Backtick, len)
           /\ len > 3 => HasRun(ast.value, Backtick, len - 1)

\* C5 witness: a code node whose value holds a run of three fence characters
\* was printed with a fence of four.
C5_Witness ==
  /\ pc = "done"
  /\ ast.type = "code"
  /\ HasRun(ast.value, Backtick, 3)
  /\ result.ok
  /\ Len(result.doc.parts[1].value) = 4

\* The text of the label the reference label rule asks for.
LabelText(n) ==
  IF n.referenceType = "shortcut" THEN <<>>
  ELSE IF n.referenceType = "full" THEN <<"[">> \o n.identifier \o <<"]">>
  ELSE <<"[", "]">>

\* C6: an imageReference that is printed is "![", the alt text, "]" and the
\* label: nothing for a shortcut reference, the identifier in brackets for a
\* full one, empty brackets for any other.
C6_ReferenceLabel ==
  (pc = "done" /\ ast.type = "imageReference" /\ result.ok) =>
    /\ result.doc.type = "concat"
    /\ Len(result.doc.parts) = 4
    /\ result.doc.parts[1] = Str(<<"!", "[">>)
    /\ result.doc.parts[2].type = "fill"
    /\ result.doc.parts[3] = Str(<<"]">>)
    /\ FlatText(result.doc.parts[4]) = LabelText(ast)
    /\ FlatText(result.doc) =
         <<"!", "[">> \o FlatText(result.doc.parts[2]) \o <<"]">> \o LabelText(ast)

\* C6 witness: a full reference with a two-word identifier was printed.
C6_Witness ==
  /\ pc = "done"
  /\ ast.type = "imageReference"
  /\ ast.referenceType = "full"
  /\ ast.identifier = <<"a", " ", "b">>
  /\ result.ok
  /\ FlatText(result.doc.parts[4]) = <<"[", "a", " ", "b", "]">>

\* C7: the call leaves every field of every node of the AST as it was.
C7_AstUnchanged == [][ast' = ast]_vars

Failures == {"read failed", "not idempotent", "ast changed"} \cup FormatErrors

C11_WrittenIffOutputDiffers ==
  cli.write =>
    \A k \in 1..Len(cli.events) :
      LET e == cli.events[k]
      IN  (e.what # "read failed" /\ cli.fmt[e.input] \notin FormatErrors) =>
            /\ e.what \in {"unchanged", "written", "write failed"}
            /\ e.what \in {"written", "write failed"} <=> cli.fmt[e.input] # e.input
            /\ e.what = "unchanged" => cli.disk[e.file] = e.input
            /\ e.what = "write failed" => cli.disk[e.file] = e.input
            /\ e.what = "written" => cli.disk[e.file] = cli.fmt[e.input]

\* C11 witness: under --write one file was left alone, its output being its
\* input, and the next was written, its output differing.
C11_Witness ==
  /\ cli.write
  /\ Len(cli.events) = 2
  /\ cli.events[1].what = "unchanged"
  /\ cli.fmt[cli.events[1].input] = cli.events[1].input
  /\ cli.events[2].what = "written"
  /\ cli.disk[cli.events[2].file] # cli.events[2].input

\* The sequence docs with each concat among its first k elements replaced, in
\* place, by its parts.
RECURSIVE SplicedUpTo(_, _)
SplicedUpTo(docs, k) ==
  IF k = 0 THEN <<>>
  ELSE SplicedUpTo(docs, k - 1)
         \o (IF docs[k].type = "concat" THEN docs[k].parts ELSE <<docs[k]>>)

Spliced(docs) == SplicedUpTo(docs, Len(docs))

\* Whether every child of the node printed was printed to a Doc.
ChildrenPrinted == MapChildren(ast, EmptyLog).ok

\* The Docs of the children as the paragraph and footnote cases hold them
\* before flattening: joined by softlines in a paragraph.
SiteChildDocs ==
  LET docs == MapChildren(ast, EmptyLog).docs
  IN  IF ast.type = "paragraph" THEN intersperse(softline, docs) ELSE docs

\* The sequence handed to fill last: by the case of the node printed, when
\* that case reached its call of fill.
LastFill == result.fills[Len(result.fills)]

FlattenSite ==
  /\ pc = "done"
  /\ ast.type \in {"paragraph", "footnote"}
  /\ ChildrenPrinted

\* C12: flattenOnce splices one level, and what the paragraph and footnote
\* cases hand to fill is their children's Docs with exactly one level
\* spliced.
C12_SitesFlattenOneLevel ==
  FlattenSite =>
    /\ flattenOnce(SiteChildDocs) = Spliced(SiteChildDocs)
    /\ result.fills # <<>>
    /\ LastFill.by = ast.type
    /\ LastFill.parts = Spliced(SiteChildDocs)

\* The items whose iteratee has been invoked and whose promise is pending:
\* their options are being resolved or their callback is about to run.
InFlight == {j \in 1..Len(FilteredOf(cli)) : cli.stat[j] \in {"options", "callback"}}

\* C13: the files are handled in series and in the order of the filtered
\* list: the iteratee of an item is invoked only once the promise of the item
\* before it has resolved, so at most one file is between the start of its
\* option resolution and the end of its callback, and the files the callback
\* has handled are the first ones of the filtered list, in order.
C13_FilesInSeries ==
  cli.pc \in {"series", "done", "exited"} =>
    /\ Cardinality(InFlight) <= 1
    /\ \A j \in 1..Len(FilteredOf(cli)) :
         cli.stat[j] # "chained" =>
           \A i \in 1..(j - 1) : cli.stat[i] = "resolved"
    /\ Len(cli.events) <= Len(FilteredOf(cli))
    /\ \A k \in 1..Len(cli.events) :
         /\ cli.events[k].file = FilteredOf(cli)[k]
         /\ cli.stat[k] = "resolved" \/ (cli.pc = "exited" /\ k = Len(cli.events))

\* C13 witness: with two files to handle, the first is done and the
\* callback of the second is about to run.
C13_Witness ==
  /\ cli.pc = "series"
  /\ Len(FilteredOf(cli)) = 2
  /\ cli.stat[1] = "resolved"
  /\ cli.stat[2] = "callback"
  /\ Len(cli.events) = 1

\* What an event says when the callback set the exit code to 2 for the file.
SetsTwo == Failures \cup {"write failed", "no output"}

\* The events at which a file's read, format or write failed.
FailedAt == {k \in 1..Len(cli.events) : cli.events[k].what \in SetsTwo}

\* C14 as stated: a run in which a file's read, format or write failed
\* completes with exit code 2.
C14_ExitCodeStaysTwo ==
  (cli.pc = "done" /\ FailedAt # {}) => cli.exitCode = 2

\* C14 as amended: after a failure the exit code is never 0 again, and a run
\* that completes has exit code 2 unless, under --list-different, a file
\* handled after the last failure was formatted and differs from its
\* formatted form, which leaves exit code 1; without --list-different the
\* exit code stays 2.  A validation error ends the process with exit code 1
\* whatever failed before.
C14_ExitCodeStaysNonZero ==
  /\ FailedAt # {} => cli.exitCode \in {1, 2}
  /\ (cli.pc = "done" /\ FailedAt # {}) =>
       \/ cli.exitCode = 2
       \/ /\ cli.exitCode = 1
          /\ cli.listDifferent
          /\ \E k \in 1..Len(cli.events) :
               /\ \A i \in FailedAt : i < k
               /\ cli.fmt[cli.events[k].input] # cli.events[k].input
  /\ (cli.pc = "exited" /\ cli.cause = "validation") => cli.exitCode = 1

\* C14 witness: under --list-different the first file could not be read and
\* the second, not formatted yet, was formatted: the run completed with exit
\* code 1.
C14_Witness ==
  /\ cli.pc = "done"
  /\ cli.listDifferent
  /\ Len(cli.events) = 2
  /\ cli.events[1].what = "read failed"
  /\ cli.events[2].what \notin SetsTwo
  /\ cli.exitCode = 1

====
